---- MODULE Spec2Model ----
(***************************************************************************)
(* Model of src/pi/perfumes.js: the process-wide cached connection         *)
(* (connectToDatabase), the enrichment client (fetchTopNotesFromApify) and *)
(* the catalog handler (GET / POST / PUT / DELETE on the `perfumes`        *)
(* collection).  Each request is one task that suspends at its awaits;     *)
(* one action of the model runs a request from one await to the next.      *)
(***************************************************************************)
EXTENDS Integers, Sequences, FiniteSets, TLC

(* ---------------------------------------------------------------- bounds *)

\* Number of requests the process serves in one behaviour (all may overlap).
NumReqs == 2

Reqs == 1..NumReqs

(* ------------------------------------------------------------- JS values *)
\* A JavaScript value: its type tag, its number (numbers) and its text
\* (strings).  A text is a sequence of chunks; the chunk " " is whitespace.

Undefined == [t |-> "undefined", n |-> 0, s |-> <<>>]
Null == [t |-> "null", n |-> 0, s |-> <<>>]
Num(k) == [t |-> "number", n |-> k, s |-> <<>>]
Str(chunks) == [t |-> "string", n |-> 0, s |-> chunks]

\* ToBoolean: undefined, null, 0 and "" are falsy.
Truthy(v) ==
  CASE v.t = "undefined" -> FALSE
    [] v.t = "null" -> FALSE
    [] v.t = "number" -> v.n # 0
    [] v.t = "string" -> v.s # <<>>
    [] OTHER -> TRUE

\* a || b
Or(a, b) == IF Truthy(a) THEN a ELSE b

\* String.prototype.trim on the text of a string.
RECURSIVE TrimLeft(_)
TrimLeft(s) ==
  IF s # <<>> /\ Head(s) = " " THEN TrimLeft(Tail(s)) ELSE s

RECURSIVE TrimRight(_)
TrimRight(s) ==
  IF s # <<>> /\ s[Len(s)] = " " THEN TrimRight(SubSeq(s, 1, Len(s) - 1)) ELSE s

Trim(s) == TrimRight(TrimLeft(s))

\* Array.prototype.join(', ') on an array of strings.
RECURSIVE Join(_)
Join(elems) ==
  IF elems = <<>> THEN <<>>
  ELSE IF Len(elems) = 1 THEN elems[1]
  ELSE elems[1] \o <<", ">> \o Join(Tail(elems))

WantToBuy == Str(<<"wantToBuy">>)
Owned == Str(<<"owned">>)

(* ---------------------------------------------------------- identifiers *)
\* The store assigns _id k to the k-th inserted document; HexOf(k) is the
\* 24-digit hex string of that ObjectId.  Any other string is malformed.

HexOf(k) == Str(<<ToString(k)>>)
MalformedId == Str(<<"not-hex">>)

IsHex(v) == \E k \in 1..(NumReqs + 1) : v = HexOf(k)

\* new ObjectId(id): the _id the hex string denotes (IsHex(id) holds).
ObjectId(v) == CHOOSE k \in 1..(NumReqs + 1) : v = HexOf(k)

(* ------------------------------------------------------ enrichment client *)
\* What the scraper call can produce: the call rejects (network error,
\* timeout, non-2xx status), or resolves with a body `data` that is missing,
\* a string (a body that is not JSON), or an array of items.  An item is
\* null, a character of a string body, or an object with a topNotes field
\* that is missing, a string or an array of strings.

NoNotes == [t |-> "undefined", elems |-> <<>>]
NotesText == [t |-> "string", elems |-> <<<<"vanilla">>>>]
NotesArray(elems) == [t |-> "array", elems |-> elems]

Item(notes) == [t |-> "object", topNotes |-> notes]
NullItem == [t |-> "null", topNotes |-> NoNotes]
CharItem == [t |-> "char", topNotes |-> NoNotes]

Rejected == [throws |-> TRUE, data |-> [t |-> "undefined", items |-> <<>>]]
Resolved(t, items) == [throws |-> FALSE, data |-> [t |-> t, items |-> items]]

VanillaAmber == NotesArray(<< <<"vanilla">>, <<"amber">> >>)

ApifyOutcomes ==
  { Rejected,
    Resolved("undefined", <<>>),
    Resolved("string", <<CharItem>>),
    Resolved("array", <<>>),
    Resolved("array", <<NullItem>>),
    Resolved("array", <<Item(NoNotes)>>),
    Resolved("array", <<Item(NotesText)>>),
    Resolved("array", <<Item(NotesArray(<<>>))>>),
    Resolved("array", <<Item(VanillaAmber)>>),
    Resolved("array", <<Item(NoNotes), Item(VanillaAmber)>>) }

\* The body of the try block: the awaited call, then the look at data[0].
\* Reading a property of a null item throws.
FetchTry(o) ==
  IF o.throws THEN [threw |-> TRUE, value |-> Undefined]
  ELSE IF o.data.t # "undefined" /\ Len(o.data.items) > 0
    THEN LET first == o.data.items[1] IN
         IF first.t = "null" THEN [threw |-> TRUE, value |-> Undefined]
         ELSE IF first.topNotes.t = "array"
           THEN [threw |-> FALSE, value |-> Str(Join(first.topNotes.elems))]
           ELSE [threw |-> FALSE, value |-> Str(<<>>)]
    ELSE [threw |-> FALSE, value |-> Str(<<>>)]

\* (mutant) the client without its catch
fetchWithoutCatch(o) == FetchTry(o)

\* fetchTopNotesFromApify: the catch turns every throw into ''.
fetchTopNotesFromApify(o) ==
  LET tried == FetchTry(o) IN
  IF tried.threw THEN [threw |-> FALSE, value |-> Str(<<>>)] ELSE tried

(* ---------------------------------------------------------------- requests *)

NoBody == [name |-> Undefined, status |-> Undefined, priceBDT |-> Undefined,
           id |-> Undefined, topNotes |-> Undefined]
NoQuery == [id |-> Undefined]

Request(m, b, q) == [method |-> m, body |-> b, query |-> q]
NoRequest == Request("none", NoBody, NoQuery)

\* Identifiers a client sends: none, a malformed one, the ids of the first
\* two documents.
IdInputs == {Undefined, MalformedId, HexOf(1), HexOf(2)}

PostBody(name, status, price) ==
  [NoBody EXCEPT !.name = name, !.status = status, !.priceBDT = price]

PostBodies ==
  { PostBody(Str(n), st, p) :
      n \in { <<" ", "a", " ">>, <<"A">> }, st \in {WantToBuy, Owned},
      p \in {Undefined, Num(0), Num(5)} }
  \cup { PostBody(Str(<<" ">>), Owned, Undefined),
         PostBody(Str(<<>>), Owned, Undefined),
         PostBody(Undefined, Owned, Undefined),
         PostBody(Str(<<"A">>), Undefined, Num(5)),
         PostBody(Num(5), Owned, Undefined) }

PutBody(id, notes, price, status) ==
  [NoBody EXCEPT !.id = id, !.topNotes = notes, !.priceBDT = price,
                 !.status = status]

RoseOud == Str(<<"rose", ", ", "oud">>)

\* Updates of the first document: every combination of notes, price and
\* status, and each field with a value of the wrong type; and an update of
\* the second document.
PutBodies ==
  { PutBody(HexOf(1), tn, p, st) :
      tn \in {Undefined, RoseOud}, p \in {Undefined, Num(5)},
      st \in {Undefined, WantToBuy, Owned} }
  \cup { PutBody(HexOf(1), Num(5), Undefined, Undefined),
         PutBody(HexOf(1), Undefined, Str(<<"5">>), WantToBuy),
         PutBody(HexOf(1), Undefined, Num(5), Num(5)),
         PutBody(HexOf(2), RoseOud, Undefined, Undefined) }

\* Updates that name no document: no id, a malformed id.
BadPutBodies ==
  { PutBody(Undefined, RoseOud, Undefined, Undefined),
    PutBody(MalformedId, RoseOud, Undefined, Undefined) }

(* --------------------------------------------------------------- responses *)

NoResponse == [status |-> 0, kind |-> "none", text |-> "", docs |-> <<>>]
JsonError(code, msg) ==
  [status |-> code, kind |-> "error", text |-> msg, docs |-> <<>>]
JsonDoc(code, doc) ==
  [status |-> code, kind |-> "doc", text |-> "", docs |-> <<doc>>]
JsonArray(code, docs) ==
  [status |-> code, kind |-> "array", text |-> "", docs |-> docs]
JsonMessage(code, msg) ==
  [status |-> code, kind |-> "message", text |-> msg, docs |-> <<>>]
EndText(code, msg) ==
  [status |-> code, kind |-> "text", text |-> msg, docs |-> <<>>]

\* (mutant) a 500 that carries the message of the error caught
InternalErrorDetailed == JsonError(500, "E11000 duplicate key error")

\* Line 114.
InternalError == JsonError(500, "Internal Server Error")

(* ------------------------------------------------------------------- state *)

Doc(id, name, status, price, notes) ==
  [_id |-> id, name |-> name, status |-> status, priceBDT |-> price,
   topNotes |-> notes]

VARIABLES
  env,             \* process.env: is MONGODB_URI / APIFY_TOKEN set
  cachedClient,    \* module-level cachedClient (NullHandle = null)
  cachedDb,        \* module-level cachedDb
  collection,      \* the documents of db.collection('perfumes')
  nextId,          \* the _id the store gives the next inserted document
  pc,              \* where each request's task is suspended
  req,             \* each request: its method, and its body and query
                   \* once the handler has read them (lines 59, 82, 100)
  local,           \* each task's locals: client, db, topNotes
  res,             \* the response each request has sent
  connectAttempts, \* number of client.connect() calls made so far
  cacheWrites,     \* number of writes of cachedClient/cachedDb so far
  apifyCalls       \* number of scraper calls each request has made

vars == <<env, cachedClient, cachedDb, collection, nextId, pc, req, local,
          res, connectAttempts, cacheWrites, apifyCalls>>

NullHandle == 0

NoLocal == [client |-> NullHandle, db |-> NullHandle, topNotes |-> Undefined]

\* The process starts with an empty cache, on a store that holds the
\* documents docs written before it started.
InitWith(docs) ==
  /\ env \in [MONGODB_URI : BOOLEAN, APIFY_TOKEN : BOOLEAN]
  /\ cachedClient = NullHandle
  /\ cachedDb = NullHandle
  /\ collection = docs
  /\ nextId = Cardinality(docs) + 1
  /\ pc = [r \in Reqs |-> "idle"]
  /\ req = [r \in Reqs |-> NoRequest]
  /\ local = [r \in Reqs |-> NoLocal]
  /\ res = [r \in Reqs |-> NoResponse]
  /\ connectAttempts = 0
  /\ cacheWrites = 0
  /\ apifyCalls = [r \in Reqs |-> 0]

(* ------------------------------------------------------- store primitives *)


\* collection.findOne({ name }): the documents the filter matches.
FindByName(name) == {d \in collection : d.name = name}

\* the documents { _id: oid } matches
FindById(oid) == {d \in collection : d._id = oid}

\* (mutant) a deletedCount that is 1 whatever matched
DeletedCountOne(oid) == Cardinality({oid})

\* deleteOne({ _id: oid }): what is left, and the deletedCount.
AfterDelete(oid) == collection \ FindById(oid)
DeletedCount(oid) == Cardinality(FindById(oid))

\* (mutant) a replacement of the document by `fields`, its _id kept
ReplaceWith(doc, fields) ==
  [f \in DOMAIN doc |->
     IF f \in DOMAIN fields THEN fields[f]
     ELSE IF f = "_id" THEN doc[f] ELSE Undefined]

\* $set: the fields of `fields` replace the document's.
ApplySet(doc, fields) ==
  [f \in DOMAIN doc |-> IF f \in DOMAIN fields THEN fields[f] ELSE doc[f]]

\* Code units of the characters names are made of, for the store's sort.
CodeUnit(c) == CASE c = " " -> 32 [] c = "A" -> 65 [] c = "a" -> 97 [] OTHER -> 120

RECURSIVE TextLeq(_, _)
TextLeq(a, b) ==
  IF a = <<>> THEN TRUE
  ELSE IF b = <<>> THEN FALSE
  ELSE IF CodeUnit(Head(a)) < CodeUnit(Head(b)) THEN TRUE
  ELSE IF CodeUnit(Head(a)) > CodeUnit(Head(b)) THEN FALSE
  ELSE TextLeq(Tail(a), Tail(b))

\* (mutant) a listing in whatever order the store holds the documents
InAnyOrder(docs) ==
  { s \in [1..Cardinality(docs) -> docs] :
      \A i, j \in DOMAIN s : i < j => s[i] # s[j] }

\* find().sort({ name: 1 }).toArray(): every document once, ascending by
\* name; the store fixes no order among equal names.
SortedByName(docs) ==
  { s \in [1..Cardinality(docs) -> docs] :
      /\ \A i, j \in DOMAIN s : i < j => s[i] # s[j]
      /\ \A i, j \in DOMAIN s : i < j => TextLeq(s[i].name.s, s[j].name.s) }

(* ------------------------------------------------------ connection manager *)

\* (mutant) a cache that is never consulted
CacheHitNever == FALSE

\* Line 8: the cache is used only when both variables are set.
CacheHit == cachedClient # NullHandle /\ cachedDb # NullHandle

\* (mutant) a response after which the handler goes on
RespondAndGoOn(r, response) ==
  /\ res' = [res EXCEPT ![r] = response]
  /\ pc' = pc

\* res.status(code).json(...) / .end(...), each followed by a return or by
\* the end of the handler.
Respond(r, response) ==
  /\ res' = [res EXCEPT ![r] = response]
  /\ pc' = [pc EXCEPT ![r] = "done"]

\* (mutant) the configuration checks without the one of line 48
ConfigErrorUriOnly ==
  IF ~env.MONGODB_URI THEN "Missing MongoDB URI" ELSE ""

\* Lines 47-48: the message of the first configuration check that fails,
\* "" when both values are set.
ConfigError ==
  IF ~env.MONGODB_URI THEN "Missing MongoDB URI"
  ELSE IF ~env.APIFY_TOKEN THEN "Missing Apify Token"
  ELSE ""

\* The handler is entered for a request of method m: the configuration
\* checks of lines 46-48, then connectToDatabase up to its first await.  A
\* cache hit returns at once; otherwise a new client is made and
\* client.connect() is awaited.  Requests are numbered in order of arrival.
Start(r, m) ==
  /\ pc[r] = "idle"
  /\ IF r = 1 THEN TRUE ELSE pc[r - 1] # "idle"
  /\ req' = [req EXCEPT ![r] = Request(m, NoBody, NoQuery)]
  /\ IF ConfigError # ""
       THEN /\ Respond(r, JsonError(500, ConfigError))
            /\ UNCHANGED <<local, connectAttempts>>
     ELSE IF CacheHit
       THEN /\ local' = [local EXCEPT ![r].db = cachedDb]
            /\ pc' = [pc EXCEPT ![r] = "connected"]
            /\ UNCHANGED <<res, connectAttempts>>
     ELSE /\ connectAttempts' = connectAttempts + 1
          /\ local' = [local EXCEPT ![r].client = connectAttempts + 1]
          /\ pc' = [pc EXCEPT ![r] = "connecting"]
          /\ UNCHANGED res
  /\ UNCHANGED <<env, cachedClient, cachedDb, collection, nextId, cacheWrites,
                 apifyCalls>>

\* (mutant) the cache written before the outcome of connect() is known
ConnectSettlesWriteFirst(r, ok) ==
  /\ pc[r] = "connecting"
  /\ cachedClient' = local[r].client
  /\ cachedDb' = local[r].client
  /\ cacheWrites' = cacheWrites + 1
  /\ IF ok
       THEN /\ local' = [local EXCEPT ![r].db = local[r].client]
            /\ pc' = [pc EXCEPT ![r] = "connected"]
       ELSE /\ pc' = [pc EXCEPT ![r] = "crashed"]
            /\ UNCHANGED local
  /\ UNCHANGED <<env, collection, nextId, req, res, connectAttempts,
                 apifyCalls>>

\* client.connect() settles.  On success lines 13-16 run: the handle is
\* written to the cache and returned.  On failure the rejection leaves
\* connectToDatabase and the handler (line 50 is outside the try): the
\* request ends with no response.
ConnectSettles(r, ok) ==
  /\ pc[r] = "connecting"
  /\ IF ok
       THEN /\ cachedClient' = local[r].client
            /\ cachedDb' = local[r].client
            /\ cacheWrites' = cacheWrites + 1
            /\ local' = [local EXCEPT ![r].db = local[r].client]
            /\ pc' = [pc EXCEPT ![r] = "connected"]
       ELSE /\ pc' = [pc EXCEPT ![r] = "crashed"]
            /\ UNCHANGED <<cachedClient, cachedDb, cacheWrites, local>>
  /\ UNCHANGED <<env, collection, nextId, req, res, connectAttempts,
                 apifyCalls>>

(* --------------------------------------------------------- catalog handler *)

\* (mutant) the validation without its check of the name
CreateValidStatusOnly(body) == Truthy(body.status)

\* Line 60: name and status must both be truthy.
CreateValid(body) == Truthy(body.name) /\ Truthy(body.status)

\* name.trim(): only a string has the method.
CanTrim(body) == body.name.t = "string"
TrimmedName(body) == Str(Trim(body.name.s))

\* (mutant) a lookup that finds nothing
ExistingNone(body) == {}

\* (mutant) the lookup with the name as supplied, untrimmed
ExistingUntrimmed(body) == FindByName(body.name)

\* Line 65: the lookup for a document with the trimmed name.
Existing(body) == FindByName(TrimmedName(body))

\* (mutant) the price with no default for a missing value
CreatePriceNoDefault(status, price) ==
  IF status = WantToBuy THEN price ELSE Null

\* Line 74.
CreatePrice(status, price) ==
  IF status = WantToBuy THEN Or(price, Num(0)) ELSE Null

\* Lines 71-76.
perfumeDoc(id, body, topNotes) ==
  Doc(id, TrimmedName(body), body.status,
      CreatePrice(body.status, body.priceBDT), Or(topNotes, Str(<<>>)))

\* (mutant) the price kept whenever the request names no other status
UpdatePriceUnlessOther(status, price) ==
  IF status = WantToBuy \/ status = Undefined THEN price ELSE Null

\* Line 87.
UpdatePrice(status, price) == IF status = WantToBuy THEN price ELSE Null

\* (mutant) the update set with status always in it
UpdateNamesWithStatus(body) ==
  {f \in {"topNotes"} : body.topNotes.t = "string"}
  \cup {f \in {"priceBDT"} : body.priceBDT.t = "number"}
  \cup {"status"}

\* Lines 85-88: the fields the update sets.
UpdateNames(body) ==
  {f \in {"topNotes"} : body.topNotes.t = "string"}
  \cup {f \in {"priceBDT"} : body.priceBDT.t = "number"}
  \cup {f \in {"status"} : body.status.t = "string"}

updateFields(body) ==
  [f \in UpdateNames(body) |->
     CASE f = "topNotes" -> body.topNotes
       [] f = "priceBDT" -> UpdatePrice(body.status, body.priceBDT)
       [] f = "status" -> body.status]

\* The handler reads the request rq it was entered for.
Reads(r, rq) ==
  /\ pc[r] = "connected"
  /\ rq.method = req[r].method
  /\ req' = [req EXCEPT ![r] = rq]

Unchanged ==
  UNCHANGED <<env, cachedClient, cachedDb, connectAttempts, cacheWrites>>

\* GET (lines 54-57): the sorted listing, or the catch on a store fault.
Get(r, rq, fault) ==
  /\ Reads(r, rq) /\ rq.method = "GET"
  /\ IF fault THEN Respond(r, InternalError)
     ELSE \E listing \in SortedByName(collection) :
            Respond(r, JsonArray(200, listing))
  /\ Unchanged
  /\ UNCHANGED <<collection, nextId, local, apifyCalls>>

\* POST up to the scraper call (lines 59-69): validation, the duplicate
\* lookup, and the call being issued.
PostLookup(r, rq, fault) ==
  /\ Reads(r, rq) /\ rq.method = "POST"
  /\ LET body == rq.body IN
     IF ~CreateValid(body)
       THEN /\ Respond(r, JsonError(400, "Name and status are required"))
            /\ UNCHANGED apifyCalls
     ELSE IF ~CanTrim(body) \/ fault
       THEN /\ Respond(r, InternalError)
            /\ UNCHANGED apifyCalls
     ELSE IF Existing(body) # {}
       THEN /\ Respond(r, JsonError(400, "Perfume already exists"))
            /\ UNCHANGED apifyCalls
     ELSE /\ pc' = [pc EXCEPT ![r] = "enriching"]
          /\ apifyCalls' = [apifyCalls EXCEPT ![r] = @ + 1]
          /\ UNCHANGED res
  /\ Unchanged
  /\ UNCHANGED <<collection, nextId, local>>

\* The scraper call settles (line 69); the document is built and
\* insertOne is issued (lines 71-78).
PostEnrich(r, outcome) ==
  /\ pc[r] = "enriching"
  /\ UNCHANGED req
  /\ LET fetched == fetchTopNotesFromApify(outcome) IN
     IF fetched.threw
       THEN /\ Respond(r, InternalError)
            /\ UNCHANGED local
       ELSE /\ local' = [local EXCEPT ![r].topNotes = fetched.value]
            /\ pc' = [pc EXCEPT ![r] = "inserting"]
            /\ UNCHANGED res
  /\ Unchanged
  /\ UNCHANGED <<collection, nextId, apifyCalls>>

\* insertOne settles (lines 78-79).
PostInsert(r, fault) ==
  /\ pc[r] = "inserting"
  /\ UNCHANGED req
  /\ IF fault
       THEN /\ Respond(r, InternalError)
            /\ UNCHANGED <<collection, nextId>>
       ELSE LET doc == perfumeDoc(nextId, req[r].body, local[r].topNotes) IN
            /\ collection' = collection \cup {doc}
            /\ nextId' = nextId + 1
            /\ Respond(r, JsonDoc(201, doc))
  /\ Unchanged
  /\ UNCHANGED <<local, apifyCalls>>

\* PUT (lines 82-97).
Put(r, rq, fault) ==
  /\ Reads(r, rq) /\ rq.method = "PUT"
  /\ LET body == rq.body IN
     IF ~Truthy(body.id)
       THEN /\ Respond(r, JsonError(400, "id is required"))
            /\ UNCHANGED collection
     ELSE IF ~IsHex(body.id) \/ fault
       THEN /\ Respond(r, InternalError)
            /\ UNCHANGED collection
     ELSE IF FindById(ObjectId(body.id)) = {}
       THEN /\ Respond(r, JsonError(404, "Perfume not found"))
            /\ UNCHANGED collection
     ELSE LET old == CHOOSE d \in FindById(ObjectId(body.id)) : TRUE
              new == ApplySet(old, updateFields(body)) IN
          /\ collection' = (collection \ {old}) \cup {new}
          /\ Respond(r, JsonDoc(200, new))
  /\ Unchanged
  /\ UNCHANGED <<nextId, local, apifyCalls>>

\* DELETE (lines 100-106).
Delete(r, rq, fault) ==
  /\ Reads(r, rq) /\ rq.method = "DELETE"
  /\ LET id == rq.query.id IN
     IF ~Truthy(id)
       THEN /\ Respond(r, JsonError(400, "id query param is required"))
            /\ UNCHANGED collection
     ELSE IF ~IsHex(id) \/ fault
       THEN /\ Respond(r, InternalError)
            /\ UNCHANGED collection
     ELSE /\ collection' = AfterDelete(ObjectId(id))
          /\ IF DeletedCount(ObjectId(id)) = 0
               THEN Respond(r, JsonError(404, "Perfume not found"))
               ELSE Respond(r, JsonMessage(200, "Deleted"))
  /\ Unchanged
  /\ UNCHANGED <<nextId, local, apifyCalls>>

\* Any other method (lines 109-110).
NotAllowed(r, rq) ==
  /\ Reads(r, rq)
  /\ rq.method \notin {"GET", "POST", "PUT", "DELETE"}
  /\ Respond(r, EndText(405, "Method Not Allowed"))
  /\ Unchanged
  /\ UNCHANGED <<collection, nextId, local, apifyCalls>>

\* Documents an earlier run of the service stored: the create of " a " as
\* "wantToBuy" at price 5 with scraped notes, and the create of "A" as
\* "owned" when the scraper gave nothing.
SeedA ==
  perfumeDoc(1, PostBody(Str(<<" ", "a", " ">>), WantToBuy, Num(5)),
             Str(Join(VanillaAmber.elems)))
SeedB == perfumeDoc(2, PostBody(Str(<<"A">>), Owned, Undefined), Str(<<>>))

\* The service starts on an empty store.
Init == InitWith({})

\* The steps of the process, for requests drawn from RQ and scraper
\* outcomes drawn from AO; n is the number of requests that arrive.
Methods(RQ) == {rq.method : rq \in RQ}

Connects(RQ, n) ==
  \/ \E r \in 1..n, m \in Methods(RQ) : Start(r, m)
  \/ \E r \in Reqs, ok \in BOOLEAN : ConnectSettles(r, ok)

Creates(RQ, AO) ==
  \/ \E r \in Reqs, rq \in RQ, fault \in BOOLEAN : PostLookup(r, rq, fault)
  \/ \E r \in Reqs, outcome \in AO : PostEnrich(r, outcome)
  \/ \E r \in Reqs, fault \in BOOLEAN : PostInsert(r, fault)

Updates(RQ) ==
  \E r \in Reqs, rq \in RQ, fault \in BOOLEAN : Put(r, rq, fault)

Others(RQ) ==
  \/ \E r \in Reqs, rq \in RQ, fault \in BOOLEAN : Get(r, rq, fault)
  \/ \E r \in Reqs, rq \in RQ, fault \in BOOLEAN : Delete(r, rq, fault)
  \/ \E r \in Reqs, rq \in RQ : NotAllowed(r, rq)

(* ------------------------------------------------------ the whole service *)
\* Requests of every method, overlapping freely.

CoreRequests ==
  { Request("GET", NoBody, NoQuery), Request("PATCH", NoBody, NoQuery),
    Request("POST", PostBody(Str(<<" ", "a", " ">>), WantToBuy, Num(5)), NoQuery),
    Request("POST", PostBody(Str(<<"a">>), Owned, Undefined), NoQuery),
    Request("PUT", PutBody(HexOf(1), Undefined, Undefined, Owned), NoQuery),
    Request("PUT", PutBody(HexOf(1), Undefined, Num(5), Undefined), NoQuery),
    Request("DELETE", NoBody, [id |-> HexOf(1)]) }

CoreOutcomes == {Rejected, Resolved("array", <<Item(VanillaAmber)>>)}

Next ==
  \/ Connects(CoreRequests, NumReqs)
  \/ Creates(CoreRequests, CoreOutcomes)
  \/ Updates(CoreRequests)
  \/ Others(CoreRequests)

Spec == Init /\ [][Next]_vars

(* ------------------------------------------------ create-centred behaviours *)
\* The same process fed every create payload, on an empty store or on one
\* that holds SeedA; CreateReqs creates arrive, overlapping freely.

CreateReqs == 1

CreateRequests == { Request("POST", b, NoQuery) : b \in PostBodies }

InitCreate == \E docs \in {{}, {SeedA}} : InitWith(docs)

NextCreate ==
  \/ Connects(CreateRequests, CreateReqs)
  \/ Creates(CreateRequests, CoreOutcomes)

SpecCreate == InitCreate /\ [][NextCreate]_vars

(* -------------------------------------------- enrichment-centred behaviours *)
\* The same process fed two creates and every scraper outcome.

EnrichRequests ==
  { Request("POST", PostBody(Str(<<" ", "a", " ">>), WantToBuy, Num(5)), NoQuery),
    Request("POST", PostBody(Str(<<"A">>), Owned, Undefined), NoQuery) }

NextEnrich ==
  \/ Connects(EnrichRequests, NumReqs)
  \/ Creates(EnrichRequests, ApifyOutcomes)

SpecEnrich == Init /\ [][NextEnrich]_vars

(* ------------------------------------------------ delete-centred behaviours *)
\* The same process on a store that holds SeedA, fed deletes of the first
\* two identifiers, a create, a listing and an unsupported method.

DeleteRequests ==
  { Request("DELETE", NoBody, [id |-> HexOf(k)]) : k \in 1..2 }
  \cup { Request("POST", PostBody(Str(<<"A">>), Owned, Undefined), NoQuery),
         Request("GET", NoBody, NoQuery), Request("PATCH", NoBody, NoQuery) }

InitDelete == InitWith({SeedA})

NextDelete ==
  \/ Connects(DeleteRequests, NumReqs)
  \/ Creates(DeleteRequests, CoreOutcomes)
  \/ Others(DeleteRequests)

SpecDelete == InitDelete /\ [][NextDelete]_vars

(* ------------------------------------------------ update-centred behaviours *)
\* The same process fed every update payload, on a store of two records.

UpdateRequests == { Request("PUT", b, NoQuery) : b \in PutBodies }

NextUpdate ==
  \/ Connects(UpdateRequests, NumReqs)
  \/ Updates(UpdateRequests)

\* The service starts on a store that holds SeedA and SeedB.
InitUpdate == InitWith({SeedA, SeedB})

SpecUpdate == InitUpdate /\ [][NextUpdate]_vars

(* ------------------------------------------------- input-centred behaviours *)
\* The same process on a store that holds SeedA and SeedB, fed requests of
\* every method with well-formed and ill-formed inputs: creates of a stored
\* name and of a new one, creates that miss a field or carry a name that
\* is no string, updates and deletes with no id, a malformed id and the id
\* of the first record.

InputRequests ==
  { Request("GET", NoBody, NoQuery), Request("PATCH", NoBody, NoQuery) }
  \cup { Request("POST", b, NoQuery) :
           b \in { PostBody(Str(<<" ", "a", " ">>), WantToBuy, Num(5)),
                   PostBody(Str(<<"x">>), Owned, Undefined),
                   PostBody(Str(<<>>), Owned, Undefined),
                   PostBody(Undefined, Owned, Undefined),
                   PostBody(Str(<<"A">>), Undefined, Num(5)),
                   PostBody(Num(5), Owned, Undefined) } }
  \cup { Request("PUT", b, NoQuery) :
           b \in BadPutBodies
                   \cup {PutBody(HexOf(1), RoseOud, Undefined, Undefined)} }
  \cup { Request("DELETE", NoBody, [id |-> i]) :
           i \in {Undefined, MalformedId, HexOf(1)} }

NextInputs ==
  \/ Connects(InputRequests, NumReqs)
  \/ Creates(InputRequests, CoreOutcomes)
  \/ Updates(InputRequests)
  \/ Others(InputRequests)

SpecInputs == InitUpdate /\ [][NextInputs]_vars

(* ===================================================================== *)
(*                              Properties                               *)
(* ===================================================================== *)

\* C1: in every reachable state every stored record satisfies
\* priceBDT != null => status == "wantToBuy".
C1_PriceImpliesWantToBuy ==
  \A d \in collection : d.priceBDT # Null => d.status = WantToBuy

\* C2: in every reachable state, under any interleaving of create requests,
\* no two stored records have the same (trimmed) name.
C2_NamesUnique ==
  \A d1, d2 \in collection : d1.name = d2.name => d1._id = d2._id

\* The text of a name with its surrounding whitespace removed: the trimmed
\* part of s that only whitespace surrounds.
IsTrimmed(s) == s = <<>> \/ (s[1] # " " /\ s[Len(s)] # " ")
Stripped(s) ==
  CHOOSE u \in {SubSeq(s, i, j) : i \in 1..(Len(s) + 1), j \in 0..Len(s)} :
    /\ IsTrimmed(u)
    /\ \E i \in 1..(Len(s) + 1) :
         /\ SubSeq(s, i, i + Len(u) - 1) = u
         /\ \A k \in 1..Len(s) : (k < i \/ k > i + Len(u) - 1) => s[k] = " "

DuplicateError == JsonError(400, "Perfume already exists")

\* A create whose lookup runs (no store fault) on a valid payload.
LooksUp(r, rq) ==
  /\ PostLookup(r, rq, FALSE)
  /\ rq.body.name.t = "string" /\ rq.body.name.s # <<>>
  /\ rq.body.status # Undefined

\* C3: a create whose trimmed name equals, case-sensitively, the name of a
\* record in the collection is answered 400, calls the enrichment service
\* not at all, inserts nothing and leaves the collection unchanged; a name
\* that differs from every stored name, if only in letter case, is not
\* rejected as a duplicate.
C3_DuplicateRejected ==
  [][\A r \in Reqs, rq \in CreateRequests :
       LooksUp(r, rq) =>
         IF \E d \in collection : d.name.s = Stripped(rq.body.name.s)
           THEN /\ res'[r] = DuplicateError
                /\ pc'[r] = "done"
                /\ apifyCalls'[r] = 0
                /\ collection' = collection
                /\ nextId' = nextId
           ELSE /\ res'[r] = NoResponse
                /\ pc'[r] = "enriching"]_vars

\* C3 witness: a second create of " a " was answered 400 while the record
\* "a" of the first is stored, with no enrichment call and nothing inserted.
C3_Witness ==
  \E r \in Reqs :
    /\ res[r] = DuplicateError
    /\ req[r].body.name = Str(<<" ", "a", " ">>)
    /\ apifyCalls[r] = 0
    /\ \E d \in collection : d.name = Str(<<"a">>)
    /\ Cardinality(collection) = 1

\* The price a create stores: the supplied one (0 when none is supplied)
\* for status "wantToBuy", null for any other status.
ExpectedCreatePrice(body) ==
  IF body.status = WantToBuy
    THEN (IF body.priceBDT = Undefined THEN Num(0) ELSE body.priceBDT)
    ELSE Null

\* C4: a valid create (non-empty name and status, no record of the trimmed
\* name at its lookup, no store fault) proceeds to the insert, which adds
\* exactly one record and answers 201 with it; the record's name is the
\* trimmed supplied name, its status the supplied status, its priceBDT the
\* supplied value (0 if absent) when status is "wantToBuy" and null
\* otherwise, so priceBDT != null implies status == "wantToBuy".
C4_ValidCreate ==
  [][\A r \in Reqs :
       /\ \A rq \in CreateRequests :
            (LooksUp(r, rq) /\ ~\E d \in collection :
                                  d.name.s = Stripped(rq.body.name.s))
              => pc'[r] = "enriching"
       /\ (pc[r] = "enriching" /\ pc'[r] # "enriching") => pc'[r] = "inserting"
       /\ PostInsert(r, FALSE) =>
            \E d \in collection' :
              /\ collection' \ collection = {d}
              /\ collection \subseteq collection'
              /\ res'[r] = JsonDoc(201, d)
              /\ d.name = Str(Stripped(req[r].body.name.s))
              /\ d.status = req[r].body.status
              /\ d.priceBDT = ExpectedCreatePrice(req[r].body)
              /\ d.priceBDT # Null => d.status = WantToBuy]_vars

\* C4 witness: the create of " a " with status "wantToBuy" and no price was
\* answered 201 with the record "a" at price 0, the one record stored.
C4_Witness ==
  \E r \in Reqs :
    /\ req[r].body = PostBody(Str(<<" ", "a", " ">>), WantToBuy, Undefined)
    /\ res[r].status = 201
    /\ res[r].docs[1].name = Str(<<"a">>)
    /\ res[r].docs[1].status = WantToBuy
    /\ res[r].docs[1].priceBDT = Num(0)
    /\ collection = {res[r].docs[1]}

\* ', '-joined text of an array of at most two strings.
Joined(elems) ==
  CASE Len(elems) = 0 -> <<>>
    [] Len(elems) = 1 -> elems[1]
    [] Len(elems) = 2 -> elems[1] \o <<", ">> \o elems[2]

\* The scraper answered with at least one item, and the item the client
\* looks at (the first) carries an array of notes.
HasNotesArray(o) ==
  /\ ~o.throws
  /\ o.data.t = "array"
  /\ Len(o.data.items) > 0
  /\ o.data.items[1].t = "object"
  /\ o.data.items[1].topNotes.t = "array"

ExpectedNotes(o) ==
  IF HasNotesArray(o) THEN Str(Joined(o.data.items[1].topNotes.elems))
  ELSE Str(<<>>)

\* C5: the enrichment call never raises to the create handler: whatever the
\* scraper does, the create goes on to its insert with topNotes the ', '-
\* joined notes array of the returned item, and '' in every other outcome
\* (rejection, no body, text body, empty array, null item, missing or
\* non-array notes); the insert then stores that topNotes and answers 201.
C5_EnrichmentNeverRaises ==
  [][\A r \in Reqs :
       /\ \A o \in ApifyOutcomes :
            PostEnrich(r, o) =>
              /\ pc'[r] = "inserting"
              /\ res'[r] = NoResponse
              /\ local'[r].topNotes = ExpectedNotes(o)
       /\ PostInsert(r, FALSE) =>
            /\ res'[r].status = 201
            /\ res'[r].docs[1].topNotes = local[r].topNotes
            /\ res'[r].docs[1] \in collection']_vars

\* C5 witness: one create was answered 201 with topNotes "vanilla, amber",
\* another 201 with topNotes '', and both records are stored.
C5_Witness ==
  \E r1, r2 \in Reqs :
    /\ res[r1].status = 201
    /\ res[r1].docs[1].topNotes = Str(<<"vanilla", ", ", "amber">>)
    /\ res[r2].status = 201
    /\ res[r2].docs[1].topNotes = Str(<<>>)
    /\ {res[r1].docs[1], res[r2].docs[1]} \subseteq collection

\* The fields an update request supplies with a value of the right type.
Supplied(body) ==
  {f \in {"topNotes", "status"} : body[f].t = "string"}
  \cup {f \in {"priceBDT"} : body[f].t = "number"}

\* An update that reaches a stored record: the store call runs without
\* fault and the id of rq names the record d.
Updates1(r, rq, d) ==
  /\ pc[r] = "connected"
  /\ d \in collection
  /\ rq.body.id = HexOf(d._id)
  /\ Put(r, rq, FALSE)

\* C6: a partial update changes only the fields that are supplied and
\* type-correct: the target keeps its id, its name and every field not
\* supplied, a supplied string topNotes becomes its topNotes, and every
\* other record is unchanged.  In particular a PUT of only id and a string
\* topNotes changes topNotes and leaves status and priceBDT as they were.
C6_PartialUpdateFrame ==
  [][\A r \in Reqs, rq \in UpdateRequests, d \in collection :
       Updates1(r, rq, d) =>
         \E e \in collection' :
           /\ collection' \ {e} = collection \ {d}
           /\ res'[r] = JsonDoc(200, e)
           /\ e._id = d._id /\ e.name = d.name
           /\ \A f \in {"topNotes", "status", "priceBDT"} \ Supplied(rq.body) :
                e[f] = d[f]
           /\ "topNotes" \in Supplied(rq.body) => e.topNotes = rq.body.topNotes
           /\ "status" \in Supplied(rq.body) => e.status = rq.body.status]_vars

\* C6 witness: a PUT of only id and topNotes "rose, oud" was answered 200
\* with the record at its created status "wantToBuy" and price 5, while a
\* second record is stored with other notes.
C6_Witness ==
  \E r \in Reqs :
    /\ req[r].body = PutBody(HexOf(1), RoseOud, Undefined, Undefined)
    /\ res[r].status = 200
    /\ res[r].docs[1].topNotes = RoseOud
    /\ res[r].docs[1].status = WantToBuy
    /\ res[r].docs[1].priceBDT = Num(5)
    /\ res[r].docs[1] \in collection
    /\ \E d \in collection : d._id # 1 /\ d.topNotes # RoseOud

\* C7: an update that supplies a numeric priceBDT stores that number
\* exactly when the same request's status is "wantToBuy" and null in every
\* other case, whatever the stored status.
C7_UpdatePriceByRequestStatus ==
  [][\A r \in Reqs, rq \in UpdateRequests, d \in collection :
       (Updates1(r, rq, d) /\ rq.body.priceBDT.t = "number") =>
         /\ res'[r].status = 200
         /\ res'[r].docs[1] \in collection'
         /\ res'[r].docs[1]._id = d._id
         /\ res'[r].docs[1].priceBDT =
              (IF rq.body.status = WantToBuy THEN rq.body.priceBDT ELSE Null)]_vars

\* C7 witness: a PUT of id and priceBDT 5 with no status was answered 200
\* with priceBDT null on a record whose stored status is "wantToBuy".
C7_Witness ==
  \E r \in Reqs :
    /\ req[r].body = PutBody(HexOf(1), Undefined, Num(5), Undefined)
    /\ res[r].status = 200
    /\ res[r].docs[1].status = WantToBuy
    /\ res[r].docs[1].priceBDT = Null
    /\ res[r].docs[1] \in collection

\* The delete requests for the record of id k that were answered 200.
Deleted200(k) ==
  {r \in Reqs : /\ req[r].method = "DELETE"
                /\ req[r].query.id = HexOf(k)
                /\ res[r].status = 200}

\* The record of id k was created and is no longer stored.
Gone(k) == k < nextId /\ ~\E d \in collection : d._id = k

\* Exactly one delete of a removed record succeeded, none of any other.
DeletedOnce ==
  \A k \in 1..(NumReqs + 1) :
    Cardinality(Deleted200(k)) = (IF Gone(k) THEN 1 ELSE 0)

\* C8: a delete of a (well-formed) identifier with no matching record is
\* answered 404 and leaves the collection unchanged; a delete of an existing
\* identifier removes exactly that record and succeeds; so of all deletes of
\* one record, sequential or overlapping, exactly one succeeds and every
\* later one is answered 404.
C8_DeleteOnce ==
  [][/\ \A r \in Reqs, rq \in DeleteRequests :
          (Delete(r, rq, FALSE) /\ rq.query.id # Undefined) =>
            IF \E d \in collection : HexOf(d._id) = rq.query.id
              THEN /\ res'[r] = JsonMessage(200, "Deleted")
                   /\ collection' \subseteq collection
                   /\ \E d \in collection :
                        /\ HexOf(d._id) = rq.query.id
                        /\ collection \ collection' = {d}
              ELSE /\ res'[r] = JsonError(404, "Perfume not found")
                   /\ collection' = collection
     /\ DeletedOnce']_vars

\* C8 witness: of two deletes of record 1, one was answered 200 and the
\* other 404, and the record is gone.
C8_Witness ==
  \E r1, r2 \in Reqs :
    /\ req[r1].method = "DELETE" /\ req[r1].query.id = HexOf(1)
    /\ req[r2].method = "DELETE" /\ req[r2].query.id = HexOf(1)
    /\ res[r1].status = 200
    /\ res[r2].status = 404
    /\ Gone(1)

\* Handle h was established: the acquire that made it has seen its
\* client.connect() succeed.
Established(h) ==
  \E r \in Reqs : local[r].client = h /\ pc[r] \notin {"idle", "connecting", "crashed"}

\* Request r enters the handler with its configuration present.
Acquires(r) ==
  pc[r] = "idle" /\ pc'[r] # "idle" /\ env.MONGODB_URI /\ env.APIFY_TOKEN

C10_ConnectsOnce ==
  /\ connectAttempts <= 1
  /\ cacheWrites <= 1
  /\ \A r1, r2 \in Reqs :
       (local[r1].db # NullHandle /\ local[r2].db # NullHandle)
         => local[r1].db = local[r2].db

\* The connection attempts and cache writes so far are those of the
\* requests that made a client of their own, one write per established
\* client; the cached handle and every handle in use are established ones.
HandlesAccounted ==
  /\ connectAttempts = Cardinality({r \in Reqs : local[r].client # NullHandle})
  /\ cacheWrites =
       Cardinality({r \in Reqs : local[r].client # NullHandle
                                  /\ Established(local[r].client)})
  /\ cachedDb # NullHandle => Established(cachedDb)
  /\ \A r \in Reqs : local[r].db # NullHandle => Established(local[r].db)

\* C10 (amended): a connection is attempted only by an acquire that starts
\* before any acquire has completed successfully, each acquire attempts at
\* most one, and the cache is written once per attempt that succeeds (so
\* overlapping first acquires each connect and each overwrite the cache);
\* every request uses a handle that some acquire established.
C10_ConnectsUntilCached ==
  [][/\ connectAttempts' # connectAttempts =>
          /\ cacheWrites = 0
          /\ connectAttempts' = connectAttempts + 1
     /\ cacheWrites' # cacheWrites =>
          /\ cacheWrites' = cacheWrites + 1
          /\ \E r \in Reqs : /\ pc[r] = "connecting"
                             /\ pc'[r] = "connected"
                             /\ cachedDb' = local[r].client
                             /\ cachedClient' = local[r].client
     /\ HandlesAccounted']_vars

\* C10 witness: two overlapping first acquires both connected and both
\* wrote the cache, and two requests hold different handles.
C10_Witness ==
  /\ connectAttempts = 2
  /\ cacheWrites = 2
  /\ \E r1, r2 \in Reqs :
       /\ local[r1].db # NullHandle /\ local[r2].db # NullHandle
       /\ local[r1].db # local[r2].db

\* C11: a connection fault (client.connect() fails when the handler
\* acquires the connection) is answered with status 500 and the
\* InternalError body, as every other store fault is; the request does not
\* end without a response.
C11_ConnectFaultAnswered ==
  [][\A r \in Reqs :
       ConnectSettles(r, FALSE) =>
         /\ res'[r] = JsonError(500, "Internal Server Error")
         /\ pc'[r] = "done"]_vars

\* The steps of request r that issue a store operation whose outcome is
\* the fault `fault`, or that convert the identifier of rq.
StoreStep(r, rq, fault) ==
  /\ pc[r] \in {"connected", "inserting"}
  /\ rq.method = req[r].method
  /\ CASE rq.method = "GET" -> Get(r, rq, fault)
       [] rq.method = "POST" ->
            IF pc[r] = "inserting" THEN rq = req[r] /\ PostInsert(r, fault)
            ELSE CreateValid(rq.body) /\ CanTrim(rq.body)
                 /\ PostLookup(r, rq, fault)
       [] rq.method = "PUT" -> rq.body.id # Undefined /\ Put(r, rq, fault)
       [] rq.method = "DELETE" ->
            rq.query.id # Undefined /\ Delete(r, rq, fault)
       [] OTHER -> FALSE

\* The identifier rq carries, if it is an update or a delete.
IdOf(rq) ==
  CASE rq.method = "PUT" -> rq.body.id
    [] rq.method = "DELETE" -> rq.query.id
    [] OTHER -> Undefined

\* C12: in every method branch (list, create, update, delete) an error
\* raised by a store operation, or by converting a malformed identifier, is
\* answered with status 500 and exactly the body
\* {error: "Internal Server Error"}; the failed operation changes nothing.
C12_StoreFaultsAnswered500 ==
  [][\A r \in Reqs, rq \in InputRequests :
       (StoreStep(r, rq, TRUE) \/ (IdOf(rq) = MalformedId /\ StoreStep(r, rq, FALSE)))
         => /\ res'[r] = JsonError(500, "Internal Server Error")
            /\ pc'[r] = "done"
            /\ collection' = collection]_vars

\* C12 witness: an update with a malformed id and a create whose insert
\* faulted were both answered 500 with the fixed body, the store as it was.
C12_Witness ==
  \E r1, r2 \in Reqs :
    /\ req[r1].method = "PUT" /\ req[r1].body.id = MalformedId
    /\ res[r1] = JsonError(500, "Internal Server Error")
    /\ req[r2].method = "POST" /\ apifyCalls[r2] = 1
    /\ res[r2] = JsonError(500, "Internal Server Error")
    /\ collection = {SeedA, SeedB}

\* Request r enters the handler while a configuration value is absent.
EntersUnconfigured(r) ==
  pc[r] = "idle" /\ pc'[r] # "idle" /\ ~(env.MONGODB_URI /\ env.APIFY_TOKEN)

\* C13: when the connection URI or the enrichment credential is absent,
\* every request of any method is answered 500 with a message naming the
\* missing value, and makes no connection attempt, no store operation and
\* no enrichment call: the request is over when it has answered, and cache,
\* collection and call counts are as they were.
C13_MissingConfig ==
  [][\A r \in Reqs :
       EntersUnconfigured(r) =>
         /\ res'[r] = JsonError(500, IF env.MONGODB_URI THEN "Missing Apify Token"
                                     ELSE "Missing MongoDB URI")
         /\ pc'[r] = "done"
         /\ local'[r] = NoLocal
         /\ connectAttempts' = 0 /\ cacheWrites' = 0
         /\ cachedClient' = NullHandle /\ cachedDb' = NullHandle
         /\ collection' = collection /\ nextId' = nextId
         /\ apifyCalls'[r] = 0]_vars

\* C13 witness: with the URI set and the credential absent, a create and a
\* delete were both answered 500 "Missing Apify Token"; no connection was
\* attempted.
C13_Witness ==
  /\ env.MONGODB_URI /\ ~env.APIFY_TOKEN
  /\ connectAttempts = 0
  /\ \E r1, r2 \in Reqs :
       /\ req[r1].method = "POST" /\ req[r2].method = "DELETE"
       /\ res[r1] = JsonError(500, "Missing Apify Token")
       /\ res[r2] = JsonError(500, "Missing Apify Token")

\* A required text of a payload is missing: absent or empty.
Missing(v) == v = Undefined \/ v = Str(<<>>)

\* Request r handles rq, which fails the validation of its method;
\* ValidationError(rq) is the answer that validation gives.
Invalid(r, rq, fault) ==
  /\ pc[r] = "connected"
  /\ rq.method = req[r].method
  /\ CASE rq.method = "POST" ->
            /\ Missing(rq.body.name) \/ Missing(rq.body.status)
            /\ PostLookup(r, rq, fault)
       [] rq.method = "PUT" -> Missing(rq.body.id) /\ Put(r, rq, fault)
       [] rq.method = "DELETE" ->
            Missing(rq.query.id) /\ Delete(r, rq, fault)
       [] OTHER -> FALSE

ValidationError(rq) ==
  CASE rq.method = "POST" -> JsonError(400, "Name and status are required")
    [] rq.method = "PUT" -> JsonError(400, "id is required")
    [] rq.method = "DELETE" -> JsonError(400, "id query param is required")

\* C14: a request that fails validation (a create without a non-empty name
\* or without a non-empty status, an update without id, a delete without
\* id) is answered 400 with the validation message of its method, whatever
\* the store would do, and is then over; it makes no enrichment call and
\* the collection is unchanged.
C14_ValidationShortCircuits ==
  [][\A r \in Reqs, rq \in InputRequests, fault \in BOOLEAN :
       Invalid(r, rq, fault) =>
         /\ res'[r] = ValidationError(rq)
         /\ pc'[r] = "done"
         /\ apifyCalls'[r] = 0
         /\ collection' = collection
         /\ nextId' = nextId]_vars

\* C14 witness: a create with an empty name and a delete with no id were
\* both answered 400, with no enrichment call and the store as it was.
C14_Witness ==
  \E r1, r2 \in Reqs :
    /\ req[r1].method = "POST" /\ req[r1].body.name = Str(<<>>)
    /\ res[r1].status = 400
    /\ req[r2].method = "DELETE" /\ req[r2].query.id = Undefined
    /\ res[r2].status = 400
    /\ apifyCalls[r1] = 0 /\ apifyCalls[r2] = 0
    /\ collection = {SeedA, SeedB}

\* C15: every stored record has a name that is a non-empty string with no
\* surrounding whitespace, for every payload the create validation accepts
\* (names made only of whitespace included).
C15_StoredNamesNonEmpty ==
  \A d \in collection :
    /\ d.name.t = "string"
    /\ d.name.s # <<>>
    /\ Head(d.name.s) # " " /\ d.name.s[Len(d.name.s)] # " "

\* C16: a list request whose store call succeeds is answered 200 with an
\* array that holds every record of the collection exactly once, in
\* non-decreasing order of name, and the collection is unchanged.
C16_ListSorted ==
  [][\A r \in Reqs, rq \in InputRequests :
       Get(r, rq, FALSE) =>
         LET out == res'[r].docs IN
         /\ res'[r].status = 200 /\ res'[r].kind = "array"
         /\ Len(out) = Cardinality(collection)
         /\ {out[i] : i \in 1..Len(out)} = collection
         /\ \A i \in 1..(Len(out) - 1) : TextLeq(out[i].name.s, out[i + 1].name.s)
         /\ collection' = collection /\ nextId' = nextId]_vars

\* C16 witness: a listing of three records named "A", "a" and "x", in that
\* order, which is not the order of their ids.
C16_Witness ==
  \E r \in Reqs :
    /\ req[r].method = "GET" /\ res[r].status = 200
    /\ Len(res[r].docs) = 3
    /\ res[r].docs[1] = SeedB /\ res[r].docs[2] = SeedA
    /\ res[r].docs[3].name = Str(<<"x">>)
    /\ res[r].docs[1]._id > res[r].docs[2]._id

Ids(docs) == {d._id : d \in docs}

\* C17: within one create the steps occur in the order validation,
\* duplicate lookup, enrichment call, insert, response.  The enrichment
\* service is called by a create at the step where it has passed validation
\* and found no record of its trimmed name, once, and by no other request;
\* the call returns before the insert is issued, the insert is the step
\* that answers, and a request that has ended (answered or failed) takes no
\* further step, so no connection attempt, store call or enrichment call is
\* retried.
C17_CreateStepsInOrder ==
  [][/\ \A r \in Reqs :
          /\ apifyCalls'[r] # apifyCalls[r] =>
               /\ apifyCalls[r] = 0 /\ apifyCalls'[r] = 1
               /\ req'[r].method = "POST"
               /\ ~Missing(req'[r].body.name) /\ ~Missing(req'[r].body.status)
               /\ ~\E d \in collection :
                     d.name.s = Stripped(req'[r].body.name.s)
               /\ pc[r] = "connected" /\ pc'[r] = "enriching"
          /\ \A rq \in InputRequests :
               (LooksUp(r, rq) /\ ~\E d \in collection :
                                     d.name.s = Stripped(rq.body.name.s))
                 => apifyCalls'[r] = 1
          /\ (pc[r] = "enriching" /\ pc'[r] # pc[r]) =>
               /\ pc'[r] = "inserting"
               /\ local'[r].topNotes.t = "string"
               /\ collection' = collection
               /\ res'[r] = NoResponse
          /\ (pc[r] = "inserting" /\ pc'[r] # pc[r]) =>
               /\ pc'[r] = "done"
               /\ res'[r].status \in {201, 500}
          /\ pc[r] \in {"done", "crashed"} =>
               /\ pc'[r] = pc[r] /\ req'[r] = req[r] /\ res'[r] = res[r]
               /\ local'[r] = local[r] /\ apifyCalls'[r] = apifyCalls[r]
     /\ ~(Ids(collection') \subseteq Ids(collection)) =>
          \E r \in Reqs :
            /\ pc[r] = "inserting" /\ res'[r].status = 201
            /\ apifyCalls[r] = 1
            /\ local[r].topNotes.t = "string"
     /\ connectAttempts' # connectAttempts =>
          \E r \in Reqs : pc[r] = "idle" /\ pc'[r] = "connecting"]_vars

\* C17 witness: the create of "x" made one enrichment call and was
\* answered 201, while the create of the stored name " a " was answered 400
\* and made none.
C17_Witness ==
  \E r1, r2 \in Reqs :
    /\ req[r1].body.name = Str(<<"x">>)
    /\ res[r1].status = 201 /\ apifyCalls[r1] = 1
    /\ res[r1].docs[1] \in collection
    /\ req[r2].body.name = Str(<<" ", "a", " ">>)
    /\ res[r2] = DuplicateError /\ apifyCalls[r2] = 0

Keys(docs) == {<<d._id, d.name>> : d \in docs}

\* C18: a partial update never adds or removes a record and never changes
\* a record's id or name; when its id matches no record it answers 404 and
\* the collection is unchanged; the set of record ids grows only by a
\* create that is answered 201 and shrinks only by a delete that is
\* answered 200.
C18_UpdateKeepsRecords ==
  [][/\ \A r \in Reqs, rq \in InputRequests, fault \in BOOLEAN :
          (pc[r] = "connected" /\ rq.method = "PUT" /\ Put(r, rq, fault)) =>
            /\ Keys(collection') = Keys(collection)
            /\ Cardinality(collection') = Cardinality(collection)
            /\ nextId' = nextId
     /\ \A r \in Reqs, rq \in InputRequests :
          (/\ pc[r] = "connected" /\ rq.method = "PUT"
           /\ \E k \in 1..(NumReqs + 1) :
                rq.body.id = HexOf(k) /\ k \notin Ids(collection)
           /\ Put(r, rq, FALSE))
            => /\ res'[r] = JsonError(404, "Perfume not found")
               /\ collection' = collection
     /\ ~(Ids(collection') \subseteq Ids(collection)) =>
          \E r \in Reqs :
            /\ req[r].method = "POST"
            /\ res[r] = NoResponse /\ res'[r].status = 201
            /\ Ids(collection') = Ids(collection) \cup {res'[r].docs[1]._id}
     /\ ~(Ids(collection) \subseteq Ids(collection')) =>
          \E r \in Reqs :
            /\ req'[r].method = "DELETE"
            /\ res[r] = NoResponse /\ res'[r] = JsonMessage(200, "Deleted")
            /\ \E k \in Ids(collection) :
                 /\ req'[r].query.id = HexOf(k)
                 /\ Ids(collection') = Ids(collection) \ {k}]_vars

\* C18 witness: after a delete of record 1 was answered 200, an update of
\* record 1 was answered 404 and the one record left is as it was.
C18_Witness ==
  \E r1, r2 \in Reqs :
    /\ req[r1].method = "DELETE" /\ res[r1].status = 200
    /\ req[r2].method = "PUT" /\ req[r2].body.id = HexOf(1)
    /\ res[r2] = JsonError(404, "Perfume not found")
    /\ collection = {SeedB}

\* The two cached variables are both unset or both set, to one
\* established handle; they are unset while no acquire has succeeded.
CacheConsistent ==
  /\ (cachedClient = NullHandle) <=> (cachedDb = NullHandle)
  /\ cachedDb = cachedClient
  /\ cachedDb # NullHandle => Established(cachedDb)
  /\ cacheWrites = 0 => cachedDb = NullHandle

\* C19: a connect() that fails during an acquire leaves the cached client
\* and database as they were, unset if no acquire has succeeded; an acquire
\* that starts while they are unset attempts a fresh connection; the cache
\* never holds a failed or half-initialised handle, and the two variables
\* are always both unset or both set.
C19_FailedConnectLeavesCache ==
  [][/\ \A r \in Reqs :
          /\ ConnectSettles(r, FALSE) =>
               /\ cachedClient' = cachedClient /\ cachedDb' = cachedDb
               /\ cacheWrites' = cacheWrites
               /\ local'[r].db = NullHandle
          /\ (Acquires(r) /\ cachedClient = NullHandle /\ cachedDb = NullHandle) =>
               /\ connectAttempts' = connectAttempts + 1
               /\ pc'[r] = "connecting"
               /\ local'[r].client = connectAttempts'
               /\ local'[r].db = NullHandle
     /\ CacheConsistent']_vars

\* C19 witness: the first request's connect() failed, the cache is unset,
\* and the second request is attempting a connection of its own.
C19_Witness ==
  /\ pc[1] = "crashed"
  /\ cachedClient = NullHandle /\ cachedDb = NullHandle
  /\ pc[2] = "connecting"
  /\ local[2].client = 2
  /\ connectAttempts = 2

\* C20: a request sends at most one response, whichever branch it takes
\* and whichever store or enrichment fault occurs: a response is sent only
\* by a request that has sent none, and ends it; a request that has
\* answered takes no further step; and the collection is changed only by a
\* step of a request that has not yet answered.
C20_OneResponse ==
  [][/\ \A r \in Reqs :
          /\ res'[r] # res[r] =>
               /\ res[r] = NoResponse
               /\ pc[r] \notin {"done", "crashed"}
               /\ pc'[r] = "done"
          /\ res[r] # NoResponse =>
               /\ pc[r] = "done" /\ pc'[r] = "done"
               /\ req'[r] = req[r] /\ local'[r] = local[r]
               /\ apifyCalls'[r] = apifyCalls[r]
     /\ collection' # collection =>
          \E r \in Reqs : pc'[r] # pc[r] /\ res[r] = NoResponse]_vars

\* C20 witness: a create whose insert faulted after its enrichment call
\* was answered 500, and an update was answered 404, each once.
C20_Witness ==
  \E r1, r2 \in Reqs :
    /\ req[r1].method = "POST" /\ apifyCalls[r1] = 1
    /\ res[r1] = JsonError(500, "Internal Server Error")
    /\ req[r2].method = "PUT" /\ res[r2].status = 404
    /\ pc[r1] = "done" /\ pc[r2] = "done"

====
